---- MODULE Spec2Model ----
(***************************************************************************)
(* zram-generator, src/generator.rs: run_generator and its helpers, over   *)
(* an explicit filesystem.  A path is the sequence of its components, the  *)
(* filesystem a function from the existing paths to their entries.  One    *)
(* action per system call of a run; the environment decides the container  *)
(* probe's outcome and whether a system call meets an I/O error.           *)
(***************************************************************************)
EXTENDS Naturals, Sequences, FiniteSets, TLC

VARIABLES
    fs,            \* the filesystem: existing path -> entry
    fs0,           \* the filesystem when the current run started
    devices,       \* run_generator's `devices`
    virt,          \* what systemd-detect-virt --container does in this run
    pc,            \* position of the run inside run_generator
    i,             \* index of the device the loop of line 59 is at
    devices_made,  \* the local of line 58
    result,        \* "running", or what run_generator returned
    writes,        \* the run's filesystem modifications, in order
    failed,        \* the step of this run that returned an error, or "none"
    fault,         \* the environment made a system call of this run fail
    prev,          \* devices, virt and result of the preceding run
    runs           \* number of runs started

vars == <<fs, fs0, devices, virt, pc, i, devices_made, result, writes,
          failed, fault, prev, runs>>

-----------------------------------------------------------------------------
(* Bounds *)

MaxDevices == 2
MaxRuns == 2

(* Inputs and environment *)

Names == {"zram0", "zram1"}
Device == [name : Names]
DeviceLists == UNION {[1..k -> Device] : k \in 0..MaxDevices}

VirtOutcomes == {"spawn_failed", "exit_zero", "exit_nonzero"}

output_directory == <<"out">>
root == <<"root">>
current_exe == "/usr/lib/systemd/system-generators/zram-generator"

-----------------------------------------------------------------------------
(* The filesystem *)

Dir == [kind |-> "dir", data |-> "", target |-> <<>>]
File(contents) == [kind |-> "file", data |-> contents, target |-> <<>>]
Link(dst) == [kind |-> "symlink", data |-> "", target |-> dst]

Put(f, p, e) == [q \in (DOMAIN f) \cup {p} |-> IF q = p THEN e ELSE f[q]]

Exists(f, p) == p \in DOMAIN f
IsDir(f, p) == Exists(f, p) /\ f[p].kind = "dir"

\* Path::parent; called only on paths that have one
parent(p) == SubSeq(p, 1, Len(p) - 1)

Failure(f, log) == [ok |-> FALSE, fs |-> f, log |-> log]
Success(f, log) == [ok |-> TRUE, fs |-> f, log |-> log]

\* fs::create_dir_all: an existing directory is fine, anything else in the way
\* is an error, a missing directory is created after its ancestors.
RECURSIVE create_dir_all(_, _)
create_dir_all(f, p) ==
    IF Exists(f, p)
    THEN IF f[p].kind = "dir" THEN Success(f, <<>>) ELSE Failure(f, <<>>)
    ELSE IF Len(p) = 0
    THEN Failure(f, <<>>)
    ELSE LET r == create_dir_all(f, parent(p))
         IN  IF r.ok
             THEN Success(Put(r.fs, p, Dir),
                          Append(r.log, [op |-> "mkdir", path |-> p]))
             ELSE r

\* make_parent; io = "err" is an I/O error met by create_dir_all
make_parent(f, of, io) ==
    IF Len(of) = 0
    THEN Failure(f, <<>>)
    ELSE IF io = "err"
    THEN Failure(f, <<>>)
    ELSE create_dir_all(f, parent(of))

\* a symlink that takes an existing entry for success
symlink_idempotent(f, dst, src, io) ==
    IF io = "err" \/ ~IsDir(f, parent(src))
    THEN Failure(f, <<>>)
    ELSE IF Exists(f, src)
    THEN Success(f, <<>>)
    ELSE Success(Put(f, src, Link(dst)), <<[op |-> "symlink", path |-> src]>>)

\* std::os::unix::fs::symlink: EEXIST when anything is at src
symlink(f, dst, src, io) ==
    IF io = "err" \/ Exists(f, src) \/ ~IsDir(f, parent(src))
    THEN Failure(f, <<>>)
    ELSE Success(Put(f, src, Link(dst)), <<[op |-> "symlink", path |-> src]>>)

\* a write that opens the file for appending
fs_write_append(f, path, contents, io) ==
    IF io = "open_err" \/ ~IsDir(f, parent(path)) \/ IsDir(f, path)
    THEN Failure(f, <<>>)
    ELSE IF io = "write_err"
    THEN Failure(Put(f, path, File("")), <<[op |-> "truncate", path |-> path]>>)
    ELSE Success(Put(f, path, File((IF Exists(f, path) THEN f[path].data ELSE "")
                                   \o contents)),
                 <<[op |-> "write", path |-> path]>>)

\* fs::write: create or truncate the file, then write all of contents.
\* io = "open_err": the file cannot be opened; io = "write_err": it was
\* created or truncated and the write failed.
fs_write(f, path, contents, io) ==
    IF io = "open_err" \/ ~IsDir(f, parent(path)) \/ IsDir(f, path)
    THEN Failure(f, <<>>)
    ELSE IF io = "write_err"
    THEN Failure(Put(f, path, File("")), <<[op |-> "truncate", path |-> path]>>)
    ELSE Success(Put(f, path, File(contents)),
                 <<[op |-> "write", path |-> path]>>)

-----------------------------------------------------------------------------
(* Names, paths and contents *)

swap_name(device) == "dev-" \o device.name \o ".swap"
swap_path(device) == output_directory \o <<swap_name(device)>>
symlink_path(device) ==
    output_directory \o <<"swap.target.wants">> \o <<swap_name(device)>>
target_path(device) == <<"..", swap_name(device)>>
service_path == output_directory \o <<"swap-create@.service">>
modules_load_path == root \o <<"run", "modules-load.d", "zram.conf">>

swap_contents(device) ==
    "# Automatically generated by zram-generator\n\n[Unit]\n"
    \o "Description=Compressed swap on /dev/" \o device.name \o "\n"
    \o "Requires=swap-create@" \o device.name \o ".service\n"
    \o "After=swap-create@" \o device.name \o ".service\n"
    \o "\n[Swap]\n"
    \o "What=/dev/" \o device.name \o "\n"
    \o "Priority=100\n"

service_contents(generator) ==
    "# Automatically generated by zram-generator\n\n[Unit]\n"
    \o "Description=Create swap on /dev/%i\n"
    \o "Wants=systemd-modules-load.service\n"
    \o "After=systemd-modules-load.service\n"
    \o "After=dev-%i.device\n"
    \o "DefaultDependencies=false\n"
    \o "\n[Service]\n"
    \o "Type=oneshot\n"
    \o "RemainAfterExit=yes\n"
    \o "ExecStartPre=-modprobe zram\n"
    \o "ExecStart=" \o generator \o " --setup-device '%i'\n"

modules_load_contents == "zram\n"

\* make_service_template; exe = "err": env::current_exe fails
make_service_template(f, exe, io) ==
    IF exe = "err"
    THEN Failure(f, <<>>)
    ELSE fs_write(f, service_path, service_contents(current_exe), io)

-----------------------------------------------------------------------------
(* Control flow of run_generator *)

\* a run without the check for an empty list
NoDevices_unchecked(devs) == FALSE

\* devices.is_empty()
NoDevices(devs) == devs = <<>>

\* a probe whose status is read the wrong way round
virtualization_container_negated(v) ==
    IF v = "spawn_failed"
    THEN [ok |-> FALSE, val |-> FALSE]
    ELSE [ok |-> TRUE, val |-> v # "exit_zero"]

\* a probe whose spawn error counts as "not containerized"
virtualization_container_lenient(v) ==
    [ok |-> TRUE, val |-> v = "exit_zero"]

\* virtualization_container: Err when the probe cannot be spawned, else
\* Ok(status.success())
virtualization_container(v) ==
    IF v = "spawn_failed"
    THEN [ok |-> FALSE, val |-> FALSE]
    ELSE [ok |-> TRUE, val |-> v = "exit_zero"]

\* an error that is dropped instead of returned
Try_swallow(ok, next) == [pc |-> next, result |-> "running"]

\* the `?` operator: an error returns from run_generator at once
Try(ok, next) ==
    IF ok THEN [pc |-> next, result |-> "running"]
          ELSE [pc |-> "done", result |-> "Err"]

\* `return Ok(())`
ReturnOk == [pc |-> "done", result |-> "Ok"]

\* a loop that stops one device early
LoopNext_short(k, devs) == IF k + 1 < Len(devs) THEN "unit" ELSE "after_loop"

\* the end of one iteration of `for dev in &devices`
LoopNext(k, devs) == IF k < Len(devs) THEN "unit" ELSE "after_loop"

\* a run that forgets the shared artifacts
AfterLoop_skip(made) == ReturnOk

\* `if devices_made { ... }  Ok(())`
AfterLoop(made) ==
    IF made THEN [pc |-> "service", result |-> "running"] ELSE ReturnOk

-----------------------------------------------------------------------------
(* Initial state: an output directory and a root that exist; the places of *)
(* swap.target.wants and of modules-load.d are free or taken by a regular  *)
(* file.                                                                   *)

BaseFs == [p \in {<<>>, output_directory, root} |-> Dir]
wants_dir == output_directory \o <<"swap.target.wants">>
modules_load_dir == parent(modules_load_path)

InitialFs ==
    { BaseFs,
      Put(BaseFs, wants_dir, File("")),
      Put(Put(BaseFs, parent(modules_load_dir), Dir), modules_load_dir, File("")),
      Put(Put(Put(BaseFs, wants_dir, File("")), parent(modules_load_dir), Dir),
          modules_load_dir, File("")) }

NoRun == [devices |-> <<>>, virt |-> "exit_nonzero", result |-> "none"]

Init ==
    /\ fs \in InitialFs
    /\ fs0 = fs
    /\ devices = <<>>
    /\ virt = "exit_nonzero"
    /\ pc = "idle"
    /\ i = 0
    /\ devices_made = FALSE
    /\ result = "none"
    /\ writes = <<>>
    /\ failed = "none"
    /\ fault = FALSE
    /\ prev = NoRun
    /\ runs = 0

\* what a step leaves behind: the position, the result, and the step that
\* returned an error
Step(t, ok, name) ==
    /\ pc' = t.pc
    /\ result' = t.result
    /\ failed' = IF ok THEN failed ELSE name

\* run_generator is called; lines 48-51
Start(devs, v) ==
    /\ pc \in {"idle", "done"}
    /\ runs < MaxRuns
    /\ runs' = runs + 1
    /\ prev' = [devices |-> devices, virt |-> virt, result |-> result]
    /\ devices' = devs
    /\ virt' = v
    /\ fs0' = fs
    /\ writes' = <<>>
    /\ failed' = "none"
    /\ fault' = FALSE
    /\ i' = 0
    /\ devices_made' = FALSE
    /\ pc' = IF NoDevices(devs) THEN ReturnOk.pc ELSE "probe"
    /\ result' = IF NoDevices(devs) THEN ReturnOk.result ELSE "running"
    /\ UNCHANGED fs

\* lines 53-58
Probe ==
    /\ pc = "probe"
    /\ LET r == virtualization_container(virt)
           t == IF ~r.ok THEN Try(FALSE, "unit")
                ELSE IF r.val THEN ReturnOk
                ELSE IF LoopNext(0, devices) = "after_loop"
                THEN AfterLoop(devices_made)
                ELSE Try(TRUE, "unit")
       IN  /\ Step(t, r.ok, "probe")
           /\ i' = IF t.pc = "unit" THEN 1 ELSE i
    /\ UNCHANGED <<fs, fs0, devices, virt, devices_made, writes, fault, prev, runs>>

\* handle_device, lines 113-144: the swap unit is written
WriteUnit ==
    /\ pc = "unit"
    /\ \E io \in {"ok", "open_err", "write_err"} :
         LET r == fs_write(fs, swap_path(devices[i]), swap_contents(devices[i]), io)
         IN  /\ fs' = r.fs
             /\ writes' = writes \o r.log
             /\ fault' = (fault \/ io # "ok")
             /\ Step(Try(r.ok, "link_parent"), r.ok, "unit")
    /\ UNCHANGED <<fs0, devices, virt, i, devices_made, prev, runs>>

\* make_symlink, line 21: the parent of the symlink
LinkParent ==
    /\ pc = "link_parent"
    /\ \E io \in {"ok", "err"} :
         LET r == make_parent(fs, symlink_path(devices[i]), io)
         IN  /\ fs' = r.fs
             /\ writes' = writes \o r.log
             /\ fault' = (fault \/ io # "ok")
             /\ Step(Try(r.ok, "symlink"), r.ok, "link_parent")
    /\ UNCHANGED <<fs0, devices, virt, i, devices_made, prev, runs>>

\* make_symlink, lines 22-29, then handle_device returns Ok(true) and the
\* loop of lines 59-61 goes on
Symlink ==
    /\ pc = "symlink"
    /\ \E io \in {"ok", "err"} :
         LET r == symlink(fs, target_path(devices[i]), symlink_path(devices[i]), io)
             made == devices_made \/ r.ok
             next == LoopNext(i, devices)
             t == IF r.ok /\ next = "after_loop" THEN AfterLoop(made)
                  ELSE Try(r.ok, next)
         IN  /\ fs' = r.fs
             /\ writes' = writes \o r.log
             /\ fault' = (fault \/ io # "ok")
             /\ devices_made' = made
             /\ i' = IF t.pc = "unit" THEN i + 1 ELSE i
             /\ Step(t, r.ok, "symlink")
    /\ UNCHANGED <<fs0, devices, virt, prev, runs>>

\* line 64
ServiceTemplate ==
    /\ pc = "service"
    /\ \E exe \in {"ok", "err"}, io \in {"ok", "open_err", "write_err"} :
         LET r == make_service_template(fs, exe, io)
         IN  /\ fs' = r.fs
             /\ writes' = writes \o r.log
             /\ fault' = (fault \/ io # "ok" \/ exe # "ok")
             /\ Step(Try(r.ok, "modules_parent"), r.ok, "service")
    /\ UNCHANGED <<fs0, devices, virt, i, devices_made, prev, runs>>

\* lines 66-67
ModulesParent ==
    /\ pc = "modules_parent"
    /\ \E io \in {"ok", "err"} :
         LET r == make_parent(fs, modules_load_path, io)
         IN  /\ fs' = r.fs
             /\ writes' = writes \o r.log
             /\ fault' = (fault \/ io # "ok")
             /\ Step(Try(r.ok, "modules_write"), r.ok, "modules_parent")
    /\ UNCHANGED <<fs0, devices, virt, i, devices_made, prev, runs>>

\* lines 68-76
ModulesWrite ==
    /\ pc = "modules_write"
    /\ \E io \in {"ok", "open_err", "write_err"} :
         LET r == fs_write(fs, modules_load_path, modules_load_contents, io)
         IN  /\ fs' = r.fs
             /\ writes' = writes \o r.log
             /\ fault' = (fault \/ io # "ok")
             /\ Step(IF r.ok THEN ReturnOk ELSE Try(FALSE, "done"), r.ok, "modules_write")
    /\ UNCHANGED <<fs0, devices, virt, i, devices_made, prev, runs>>

Next ==
    \/ \E devs \in DeviceLists, v \in VirtOutcomes : Start(devs, v)
    \/ Probe
    \/ WriteUnit
    \/ LinkParent
    \/ Symlink
    \/ ServiceTemplate
    \/ ModulesParent
    \/ ModulesWrite

Spec == Init /\ [][Next]_vars

-----------------------------------------------------------------------------
(* Vocabulary of the properties.  The artifact paths are written out here  *)
(* as the documentation gives them, not taken from the definitions above.  *)

Done == pc = "done"
Generating == runs >= 1 /\ devices # <<>> /\ virt = "exit_nonzero"

NamesOf(devs) == {devs[k].name : k \in 1..Len(devs)}
Distinct(devs) == Cardinality(NamesOf(devs)) = Len(devs)

UnitOf(n) == <<"out", "dev-" \o n \o ".swap">>
WantsOf(n) == <<"out", "swap.target.wants", "dev-" \o n \o ".swap">>
TemplateAt == <<"out", "swap-create@.service">>
ModulesAt == <<"root", "run", "modules-load.d", "zram.conf">>

Event(op, path) == [op |-> op, path |-> path]
Count(op, path) == Cardinality({k \in 1..Len(writes) : writes[k] = Event(op, path)})
Touched(path) == \E k \in 1..Len(writes) : writes[k].path = path

IsFile(f, p) == Exists(f, p) /\ f[p].kind = "file"
IsLink(f, p) == Exists(f, p) /\ f[p].kind = "symlink"

\* where a symlink stored in directory dir with text target leads
RECURSIVE Resolve(_, _)
Resolve(dir, target) ==
    IF target = <<>> THEN dir
    ELSE IF Head(target) = ".." THEN Resolve(parent(dir), Tail(target))
    ELSE Resolve(Append(dir, Head(target)), Tail(target))

\* the files and symlinks a run has created or written, mkdirs left aside
Produced == {writes[k].path : k \in {j \in 1..Len(writes) : writes[j].op # "mkdir"}}
ArtifactsFor(N) ==
    {UnitOf(n) : n \in N} \cup {WantsOf(n) : n \in N} \cup {TemplateAt, ModulesAt}

\* every artifact of the name set N is in place, written once by this run
AllProduced(N) ==
    /\ Produced = ArtifactsFor(N)
    /\ \A k \in 1..Len(writes) : writes[k].op # "truncate"
    /\ \A n \in N :
         /\ IsFile(fs, UnitOf(n)) /\ Count("write", UnitOf(n)) = 1
         /\ fs[UnitOf(n)].data = swap_contents([name |-> n])
         /\ IsLink(fs, WantsOf(n)) /\ Count("symlink", WantsOf(n)) = 1
         /\ fs[WantsOf(n)].target = <<"..", "dev-" \o n \o ".swap">>
    /\ IsFile(fs, TemplateAt) /\ Count("write", TemplateAt) = 1
    /\ IsFile(fs, ModulesAt) /\ Count("write", ModulesAt) = 1
    /\ fs[ModulesAt].data = "zram\n"

\* nothing in filesystem f stands in the way of generating for the names N:
\* no symlink path is taken, every directory needed is there or can be
\* made, no file to write is a directory
Unblocked(f, N) ==
    /\ \A n \in N : ~Exists(f, WantsOf(n))
    /\ \A p \in {parent(WantsOf(n)) : n \in N} \cup {parent(ModulesAt)} :
         \A k \in 0..Len(p) :
            Exists(f, SubSeq(p, 1, k)) => IsDir(f, SubSeq(p, 1, k))
    /\ \A p \in {UnitOf(n) : n \in N} \cup {TemplateAt, ModulesAt} : ~IsDir(f, p)

-----------------------------------------------------------------------------
\* C1 (as stated): for every non-empty device list, with the probe reporting
\* "not containerized", run_generator returns success having produced all the
\* artifacts.  Stated here for the runs in which no system call meets an
\* I/O error.
C1_EveryListSucceeds ==
    (Done /\ Generating /\ ~fault)
        => (result = "Ok" /\ AllProduced(NamesOf(devices)))

\* C1 (amended): a run on a non-empty list, probe "not containerized", that
\* returns success has device names that are pairwise distinct and has
\* produced exactly one unit file and one symlink per device, one service
\* template and one module-autoload file, a set that depends on the set of
\* names only; and the run does return success when the names are distinct,
\* nothing stands in the way in the filesystem and no system call fails.
C1_SuccessProducesAll ==
    (Done /\ Generating)
        => /\ result = "Ok" => (Distinct(devices) /\ AllProduced(NamesOf(devices)))
           /\ (Distinct(devices) /\ Unblocked(fs0, NamesOf(devices)) /\ ~fault)
                 => result = "Ok"

C1_Witness ==
    /\ Done /\ Generating /\ result = "Ok"
    /\ Len(devices) = 2 /\ devices[1].name = "zram1" /\ devices[2].name = "zram0"

\* C2 (as stated): a second run with the same inputs, on the filesystem a
\* successful first run left, succeeds and leaves the filesystem as it was.
C2_SecondRunIdempotent ==
    (Done /\ runs >= 2 /\ prev.result = "Ok" /\ prev.devices = devices
          /\ prev.virt = virt /\ ~fault)
        => (result = "Ok" /\ fs = fs0)

\* C3: with an empty device list run_generator returns success and writes
\* nothing, whatever the filesystem holds and whatever the probe would do.
C3_EmptyListWritesNothing ==
    (runs >= 1 /\ devices = <<>>)
        => (Done /\ result = "Ok" /\ writes = <<>> /\ fs = fs0 /\ failed = "none")

C3_Witness ==
    /\ runs = 2 /\ devices = <<>> /\ virt = "spawn_failed"
    /\ Done /\ result = "Ok"
    /\ IsFile(fs, ModulesAt) /\ prev.devices # <<>>

\* C4: when the probe reports "containerized" the run returns success and
\* the filesystem stays what it was, for every device list.
C4_ContainerWritesNothing ==
    (runs >= 1 /\ virt = "exit_zero")
        => /\ writes = <<>> /\ fs = fs0 /\ failed = "none"
           /\ pc \in {"probe", "done"}
           /\ Done => result = "Ok"

C4_Witness ==
    /\ runs = 2 /\ virt = "exit_zero" /\ Len(devices) = 2
    /\ Done /\ result = "Ok"
    /\ IsFile(fs, ModulesAt)

\* C5: when creating the parent directory of a device's symlink fails, the
\* run returns an error and has written neither the module-autoload file nor
\* the service template, also when earlier devices were handled.
C5_ParentFailureNoModulesFile ==
    (failed = "link_parent")
        => /\ Done /\ result = "Err"
           /\ ~Touched(ModulesAt) /\ ~Touched(TemplateAt)
           /\ Len(SelectSeq(writes, LAMBDA e : e.op = "symlink")) = i - 1

C5_Witness ==
    /\ failed = "link_parent" /\ Done
    /\ i = 2 /\ Count("symlink", WantsOf(devices[1].name)) = 1
    /\ fs0 = BaseFs

\* C6: a symlink whose path is already taken is a hard error: the step
\* fails, creates nothing, and run_generator returns an error; so for an
\* entry left by an earlier run and for a name that occurs twice in a list.
C6_ExistingEntryIsHardError ==
    [][ (pc = "symlink" /\ Exists(fs, WantsOf(devices[i].name)))
            => (pc' = "done" /\ result' = "Err" /\ failed' = "symlink"
                /\ fs' = fs /\ writes' = writes) ]_vars

C6_Witness ==
    /\ Done /\ failed = "symlink" /\ ~fault
    /\ runs = 2 /\ i = 1 /\ IsLink(fs0, WantsOf(devices[1].name))

\* C7: a run writes the module-autoload file only after it has produced a
\* device unit, at most once, and a completed write leaves exactly "zram\n"
\* in it, also when the file was there before; the file never holds more
\* than that (a write that failed after opening it leaves it empty).
C7_ModulesFileExact ==
    (runs >= 1)
        => /\ Touched(ModulesAt)
                => /\ devices_made
                   /\ \E n \in NamesOf(devices) :
                        Count("write", UnitOf(n)) >= 1 /\ Count("symlink", WantsOf(n)) = 1
           /\ Count("write", ModulesAt) + Count("truncate", ModulesAt) <= 1
           /\ Count("write", ModulesAt) = 1
                => (IsFile(fs, ModulesAt) /\ fs[ModulesAt].data = "zram\n")
           /\ Exists(fs, ModulesAt)
                => (IsFile(fs, ModulesAt) /\ fs[ModulesAt].data \in {"zram\n", ""})

C7_Witness ==
    /\ runs = 2 /\ Done /\ result = "Ok"
    /\ Count("write", ModulesAt) = 1
    /\ IsFile(fs0, ModulesAt) /\ fs0[ModulesAt].data = "zram\n"

\* C8: with a non-empty list, a probe that cannot be spawned makes the run
\* return an error with nothing written; a probe that exits non-zero lets
\* the generation go on to the devices; only exit status zero is
\* "containerized" (success, nothing written).
C8_ProbeOutcomes ==
    (runs >= 1 /\ devices # <<>>)
        => /\ virt = "spawn_failed"
                => /\ writes = <<>> /\ fs = fs0 /\ pc \in {"probe", "done"}
                   /\ Done => (result = "Err" /\ failed = "probe")
           /\ virt = "exit_nonzero"
                => /\ failed # "probe"
                   /\ Done => (i >= 1 /\ (writes # <<>> \/ failed = "unit"))
           /\ virt = "exit_zero"
                => /\ writes = <<>> /\ pc \in {"probe", "done"}
                   /\ Done => result = "Ok"

C8_Witness ==
    /\ Done /\ devices # <<>> /\ virt = "spawn_failed" /\ result = "Err"

\* what a completed write leaves at an artifact's path
ContentAt(path) ==
    IF path = TemplateAt THEN service_contents(current_exe)
    ELSE IF path = ModulesAt THEN "zram\n"
    ELSE swap_contents([name |-> CHOOSE n \in Names : UnitOf(n) = path])

LastOn(path) ==
    CHOOSE k \in 1..Len(writes) :
        /\ writes[k].path = path
        /\ \A j \in (k + 1)..Len(writes) : writes[j].path # path

Writes(op) == Len(SelectSeq(writes, LAMBDA e : e.op = op))

\* C9: a step that fails makes run_generator return an error at once: no
\* later device is handled and no later shared artifact is written; nothing
\* is rolled back: whatever the run created before is still there, with the
\* content of the last write to its path (a failing write leaves its own
\* file empty), and nothing else has changed; a run that returns success has
\* written nothing or everything.
C9_FailFastNoRollback ==
    (runs >= 1)
        => /\ (failed # "none") <=> (result = "Err")
           /\ failed # "none" => Done
           /\ failed = "probe" => writes = <<>>
           /\ failed \in {"unit", "link_parent", "symlink"}
                => /\ ~Touched(TemplateAt) /\ ~Touched(ModulesAt)
                   /\ Writes("symlink") = i - 1
                   /\ Writes("write") = (IF failed = "unit" THEN i - 1 ELSE i)
           /\ failed \in {"service", "modules_parent"} => ~Touched(ModulesAt)
           /\ \A k \in 1..Len(writes) :
                LET e == writes[k]
                IN  /\ e.op = "mkdir" => IsDir(fs, e.path)
                    /\ e.op = "symlink" => IsLink(fs, e.path)
                    /\ e.op \in {"write", "truncate"}
                         => /\ IsFile(fs, e.path)
                            /\ fs[e.path].data =
                                 (IF writes[LastOn(e.path)].op = "truncate"
                                  THEN "" ELSE ContentAt(e.path))
                    /\ e.op = "truncate" => (k = Len(writes) /\ result = "Err")
           /\ \A p \in DOMAIN fs0 : ~Touched(p) => (Exists(fs, p) /\ fs[p] = fs0[p])
           /\ (Done /\ result = "Ok")
                => (writes = <<>> \/ AllProduced(NamesOf(devices)))

C9_Witness ==
    /\ Done /\ result = "Err" /\ failed = "unit" /\ i = 2
    /\ devices[1] # devices[2]
    /\ IsFile(fs, UnitOf(devices[1].name)) /\ IsLink(fs, WantsOf(devices[1].name))
    /\ ~Exists(fs, TemplateAt)

EmptyOut(f) == \A p \in DOMAIN f : Len(p) >= 2 => p[1] # "out"

\* C10: in every state of a run started on an empty output directory, (1) a
\* device's symlink exists only if its unit file does, and leads to it;
\* (2) the service template exists only if every device of the list has
\* its unit file and its symlink; (3) the run has touched the
\* module-autoload file only if the service template exists.
C10_WriteOrder ==
    (runs >= 1 /\ EmptyOut(fs0))
        => /\ \A n \in Names :
                Exists(fs, WantsOf(n))
                    => /\ IsLink(fs, WantsOf(n))
                       /\ IsFile(fs, UnitOf(n))
                       /\ Resolve(parent(WantsOf(n)), fs[WantsOf(n)].target) = UnitOf(n)
           /\ Exists(fs, TemplateAt)
                => \A n \in NamesOf(devices) :
                      IsFile(fs, UnitOf(n)) /\ IsLink(fs, WantsOf(n))
           /\ Touched(ModulesAt) => IsFile(fs, TemplateAt)

C10_Witness ==
    /\ EmptyOut(fs0) /\ Done /\ failed = "modules_parent"
    /\ Len(devices) = 2 /\ IsFile(fs, TemplateAt) /\ ~Exists(fs, ModulesAt)

====
